---- MODULE Spec2Model ----
(***************************************************************************)
(* A model of focal_stats.py: the format filter (is_supported_image), the  *)
(* discovery walk (list_cameras), the aggregation walk and the chart       *)
(* series of process_images, the camera ordering (get_camera_order) and    *)
(* the colour assignment (get_camera_colors).                              *)
(*                                                                         *)
(* Python values are modelled as follows.  A str is a sequence of          *)
(* one-character strings.  None and the other tag values are tagged        *)
(* records.  A dict is a sequence of entries in insertion order.  A float  *)
(* is an exact fraction <<numerator, denominator>> in lowest terms.        *)
(***************************************************************************)
EXTENDS Integers, Sequences, FiniteSets, TLC

VARIABLES
    HEIF_SUPPORTED, \* module flag set once at import time
    camera_type,    \* process_images: the filter argument (None or a str)
    files,          \* the files os.walk has yielded so far, in order
    camera_data,    \* process_images: the registry, a dict in insertion order
    camera_set,     \* list_cameras: the local set `cameras`
    cameras,        \* the ordered camera list (get_camera_order / sorted(...))
    colors,         \* the list returned by get_camera_colors
    charts,         \* the series plt.hist is called with, per chart
    filename,       \* the argument of is_supported_image
    supported,      \* the value is_supported_image returned
    pc              \* position in the running function

vars == <<HEIF_SUPPORTED, camera_type, files, camera_data, camera_set,
          cameras, colors, charts, filename, supported, pc>>

----------------------------------------------------------------------------
(* Bounds of the model. *)

\* Most files a directory walk yields.
MaxFiles == 2

\* Longest stem put in front of a file-name ending.
MaxStem == 1

\* Largest sample count of one camera in the ordering specification.
MaxCount == 20

\* Largest number of cameras handed to get_camera_colors.
MaxCameras == 59

----------------------------------------------------------------------------
(* Python str *)

\* The characters in use, in ascending code-point order.
CodeOrder ==
    <<" ", ".", "A", "B", "C", "E", "F", "G", "H", "I", "J", "N", "P", "X",
      "a", "b", "c", "e", "f", "g", "h", "i", "j", "n", "p", "x">>

LowerLetters == <<"a", "b", "c", "e", "f", "g", "h", "i", "j", "n", "p", "x">>

UpperLetters == <<"A", "B", "C", "E", "F", "G", "H", "I", "J", "N", "P", "X">>

Range(s) == {s[i] : i \in DOMAIN s}

\* ord(c), up to the order-preserving renumbering of the characters in use.
Ord(c) == CHOOSE i \in DOMAIN CodeOrder : CodeOrder[i] = c

\* str.lower() on one character.
LowerChar(c) ==
    IF c \in Range(UpperLetters)
    THEN LowerLetters[CHOOSE i \in DOMAIN UpperLetters : UpperLetters[i] = c]
    ELSE c

\* str.lower()
Lower(s) == [i \in DOMAIN s |-> LowerChar(s[i])]

\* s.endswith(suffix)
EndsWith(s, suffix) ==
    /\ Len(suffix) <= Len(s)
    /\ SubSeq(s, Len(s) - Len(suffix) + 1, Len(s)) = suffix

\* s.endswith(tuple_of_suffixes)
EndsWithAny(s, suffixes) == \E x \in suffixes : EndsWith(s, x)

\* sub in s
Contains(s, sub) ==
    \E k \in 0..(Len(s) - Len(sub)) : SubSeq(s, k + 1, k + Len(sub)) = sub

\* s.strip(): leading and trailing whitespace removed.
Strip(s) ==
    LET keep == {i \in DOMAIN s : s[i] # " "}
    IN  IF keep = {} THEN <<>>
        ELSE LET lo == CHOOSE i \in keep : \A j \in keep : i <= j
                 hi == CHOOSE i \in keep : \A j \in keep : j <= i
             IN  SubSeq(s, lo, hi)

\* a < b for two str (lexicographic by code point).
StrLess(a, b) ==
    \E k \in 1..(Len(a) + 1) :
        /\ k <= Len(b)
        /\ \A j \in 1..(k - 1) : a[j] = b[j]
        /\ \/ k = Len(a) + 1
           \/ Ord(a[k]) < Ord(b[k])

----------------------------------------------------------------------------
(* Format filter *)

JpegSuffixes == {<<".", "j", "p", "g">>, <<".", "j", "p", "e", "g">>,
                 <<".", "j", "p", "e">>, <<".", "j", "f", "i", "f">>}

HeifSuffixes == {<<".", "h", "e", "i", "c">>, <<".", "h", "e", "i", "f">>}

\* is_supported_image without the lower-casing of the name.
is_supported_image_NoLower(name, heif) ==
    \/ EndsWithAny(name, JpegSuffixes)
    \/ heif /\ EndsWithAny(name, HeifSuffixes)

is_supported_image(name, heif) ==
    LET lower_name == Lower(name)
    IN  IF EndsWithAny(lower_name, JpegSuffixes) THEN TRUE
        ELSE IF heif /\ EndsWithAny(lower_name, HeifSuffixes) THEN TRUE
        ELSE FALSE

----------------------------------------------------------------------------
(* Python values found in a tag dictionary *)

None == [kind |-> "None"]

Str(s) == [kind |-> "str", s |-> s]

\* A plain number (int or float) of value n/d.
Num(n, d) == [kind |-> "num", n |-> n, d |-> d]

\* A tuple of values; a rational pair is Tuple(<<Num(n, 1), Num(d, 1)>>).
Tuple(items) == [kind |-> "tuple", items |-> items]

Pair(n, d) == Tuple(<<Num(n, 1), Num(d, 1)>>)

\* bool(v)
Truthy(v) ==
    CASE v.kind = "None"  -> FALSE
      [] v.kind = "str"   -> Len(v.s) > 0
      [] v.kind = "num"   -> v.n # 0
      [] v.kind = "tuple" -> Len(v.items) > 0

\* d.get(k) for a dict modelled as a function
Get(d, k) == IF k \in DOMAIN d THEN d[k] ELSE None

\* The dict holding exactly the entries of d whose value is not None.
DictOf(d) == [k \in {x \in DOMAIN d : d[x] # None} |-> d[k]]

Abs(x) == IF x < 0 THEN -x ELSE x

RECURSIVE Gcd(_, _)
Gcd(a, b) == IF b = 0 THEN a ELSE Gcd(b, a % b)

\* The float n/d (d # 0) as a fraction in lowest terms with a positive
\* denominator.
Frac(n, d) ==
    LET g == Gcd(Abs(n), Abs(d))
        sgn == IF d < 0 THEN -1 ELSE 1
    IN  <<(sgn * n) \div g, (sgn * d) \div g>>

Ok(val) == [exc |-> "none", val |-> val]

Raise(exc) == [exc |-> exc]

\* float(v)
ToFloat(v) ==
    CASE v.kind = "num"   -> Ok(Frac(v.n, v.d))
      [] v.kind = "str"   -> Raise("ValueError")  \* no str in use is numeric
      [] v.kind = "tuple" -> Raise("TypeError")
      [] v.kind = "None"  -> Raise("TypeError")

\* a / b where b is a float
TrueDiv(a, b) ==
    IF a.kind # "num" THEN Raise("TypeError")
    ELSE IF b[1] = 0 THEN Raise("ZeroDivisionError")
    ELSE Ok(Frac(a.n * b[2], a.d * b[1]))

\* Lines 133-136 (and 138-141, 143-146): the value appended for one tag,
\*   v[0]/float(v[1]) if isinstance(v, tuple) else float(v)
Convert(v) ==
    IF v.kind = "tuple"
    THEN IF Len(v.items) < 2 THEN Raise("IndexError")
         ELSE LET den == ToFloat(v.items[2])
              IN  IF den.exc # "none" THEN den
                  ELSE TrueDiv(v.items[1], den.val)
    ELSE ToFloat(v)

----------------------------------------------------------------------------
(* The files a directory can hold *)

TAG_MAKE == 271

TAG_MODEL == 272

TAG_EXIF_IFD == 34665

TAG_EXPOSURE_TIME == 33434

TAG_FNUMBER == 33437

TAG_FOCAL_LENGTH == 37386

\* The Exif IFD holding the given values (None: the tag is not written).
Ifd(time, stop, fd) ==
    DictOf((TAG_EXPOSURE_TIME :> time) @@ (TAG_FNUMBER :> stop)
           @@ (TAG_FOCAL_LENGTH :> fd))

\* The value of tag 34665 when the file has no Exif IFD.
NoIfd == [kind |-> "no_ifd"]

\* The tag dictionary img.getexif() returns.
Exif(make, model, ifd) ==
    LET all == (TAG_MAKE :> make) @@ (TAG_MODEL :> model)
               @@ (TAG_EXIF_IFD :> ifd)
    IN  [k \in {x \in DOMAIN all : all[x] # None /\ all[x] # NoIfd} |-> all[k]]

File(name, openable, exif) ==
    [name |-> name, openable |-> openable, exif |-> exif]

JpgName == <<"a", ".", "J", "p", "g">>

HeicName == <<"a", ".", "h", "e", "i", "c">>

PngName == <<"a", ".", "p", "n", "g">>

\* Values of the make and model tags.
Makes == {None, Str(<<>>), Str(<<" ">>), Str(<<"A">>)}

Models == {None, Str(<<" ">>), Str(<<"b">>)}

\* Capture-setting values that convert without an exception.
GoodPlain == Num(2, 1)

GoodPair == Pair(1, 2)

\* Capture-setting values with an anomaly: missing, plain zero, negative,
\* zero numerator, zero denominator, text, a tuple of one item, a tuple of
\* rational pairs.
OddValues ==
    {None, Num(0, 1), Num(-1, 1), Pair(0, 1), Pair(1, 0), Str(<<"x">>),
     Tuple(<<Num(1, 1)>>), Tuple(<<Pair(1, 2), Pair(3, 4)>>)}

\* Every make/model combination with sound settings; one camera with one
\* anomalous setting in each position; a file without the Exif IFD; a file
\* without tags; a file that cannot be opened; a HEIC file; a PNG file.
Files ==
    {File(JpgName, TRUE, Exif(mk, md, Ifd(GoodPair, GoodPair, GoodPlain))) :
        mk \in Makes, md \in Models}
    \cup {File(JpgName, TRUE, Exif(Str(<<"A">>), Str(<<"b">>), Ifd(GoodPlain, GoodPlain, GoodPair)))}
    \cup {File(JpgName, TRUE, Exif(Str(<<"A">>), Str(<<"b">>), Ifd(v, GoodPair, GoodPlain))) :
        v \in OddValues}
    \cup {File(JpgName, TRUE, Exif(Str(<<"A">>), Str(<<"b">>), Ifd(GoodPair, v, GoodPlain))) :
        v \in OddValues}
    \cup {File(JpgName, TRUE, Exif(Str(<<"A">>), Str(<<"b">>), Ifd(GoodPair, GoodPlain, v))) :
        v \in OddValues}
    \cup {File(JpgName, TRUE, Exif(Str(<<"A">>), Str(<<"b">>), NoIfd)),
          File(JpgName, TRUE, Exif(None, None, NoIfd)),
          File(JpgName, FALSE, <<>>),
          File(HeicName, TRUE, Exif(None, Str(<<"b">>), Ifd(GoodPair, GoodPair, GoodPair))),
          File(PngName, TRUE, Exif(None, Str(<<"b">>), Ifd(GoodPair, GoodPair, GoodPair)))}

\* Values of the --type argument.
CameraTypes == {None, Str(<<>>), Str(<<"a">>), Str(<<"B">>)}

----------------------------------------------------------------------------
(* The registry: a dict from camera name to {'f': [], 't': [], 'focus': []} *)

Keys(data) == [i \in DOMAIN data |-> data[i].cam]

HasKey(data, cam) == \E i \in DOMAIN data : data[i].cam = cam

Entry(data, cam) == data[CHOOSE i \in DOMAIN data : data[i].cam = cam]

\* Line 129-130
SetDefault(data, cam) ==
    IF HasKey(data, cam) THEN data
    ELSE Append(data, [cam |-> cam, f |-> <<>>, t |-> <<>>, focus |-> <<>>])

\* camera_data[cam][field].append(val)
AppendTo(data, cam, field, val) ==
    [i \in DOMAIN data |->
        IF data[i].cam = cam
        THEN [data[i] EXCEPT ![field] = Append(@, val)]
        ELSE data[i]]

\* Lines 104-115 (and 44-54): the camera name of a tag dictionary.
CameraName(make, model) ==
    IF Truthy(make) /\ Truthy(model)
    THEN Str(Strip(make.s \o <<" ">> \o model.s))
    ELSE IF Truthy(model) THEN model
    ELSE IF Truthy(make) THEN make
    ELSE None

\* Line 118 with the filter test left out.
MatchesFilter_NoFilter(camera_name, ctype) == Truthy(camera_name)

\* Line 118
MatchesFilter(camera_name, ctype) ==
    /\ Truthy(camera_name)
    /\ \/ ctype = None
       \/ Contains(Lower(camera_name.s), Lower(ctype.s))

\* Lines 127-146: the registry after the three appends, and the exception
\* that ended them ("none" when all three were made).
AppendSettings(data, cam, time, stop, fd) ==
    LET d0 == SetDefault(data, cam)
        rf == Convert(stop)
    IN  IF rf.exc # "none" THEN [data |-> d0, exc |-> rf.exc]
        ELSE
        LET d1 == AppendTo(d0, cam, "f", rf.val)
            rt == Convert(time)
        IN  IF rt.exc # "none" THEN [data |-> d1, exc |-> rt.exc]
            ELSE
            LET d2 == AppendTo(d1, cam, "t", rt.val)
                rfd == Convert(fd)
            IN  IF rfd.exc # "none" THEN [data |-> d2, exc |-> rfd.exc]
                ELSE [data |-> AppendTo(d2, cam, "focus", rfd.val),
                      exc |-> "none"]

\* Lines 104-146: the body of the inner try for one tag dictionary.
ReadExif(data, exif_data, ctype) ==
    LET make == Get(exif_data, TAG_MAKE)
        model == Get(exif_data, TAG_MODEL)
        camera_name == CameraName(make, model)
    IN  IF MatchesFilter(camera_name, ctype)
        THEN LET exif_ifd == IF TAG_EXIF_IFD \in DOMAIN exif_data
                             THEN exif_data[TAG_EXIF_IFD] ELSE <<>>
                 time == Get(exif_ifd, TAG_EXPOSURE_TIME)
                 stop == Get(exif_ifd, TAG_FNUMBER)
                 fd == Get(exif_ifd, TAG_FOCAL_LENGTH)
             IN  IF Truthy(time) /\ Truthy(stop) /\ Truthy(fd)
                 THEN AppendSettings(data, camera_name.s, time, stop, fd)
                 ELSE [data |-> data, exc |-> "none"]
        ELSE [data |-> data, exc |-> "none"]

\* Line 147: the exceptions the inner try catches.
CaughtInner == {"KeyError", "TypeError", "ZeroDivisionError"}

\* Lines 95-150: one iteration of the walk over `file`.
LoopBody(data, file, ctype, heif) ==
    IF ~is_supported_image(file.name, heif) THEN [data |-> data, exc |-> "none"]
    ELSE IF ~file.openable THEN [data |-> data, exc |-> "none"]  \* line 149
    ELSE IF DOMAIN file.exif = {} THEN [data |-> data, exc |-> "none"]
    ELSE LET r == ReadExif(data, file.exif, ctype)
         IN  IF r.exc \in CaughtInner
             THEN [data |-> r.data, exc |-> "none"]
             ELSE r

----------------------------------------------------------------------------
(* Camera ordering and colours *)

\* len(camera_data[cam]['t'])
Count(data, cam) == Len(Entry(data, cam).t)

\* The list `sorted` with x put behind the items whose key is at least key(x):
\* one step of a stable sort in descending key order.
RECURSIVE InsertDesc(_, _, _)
InsertDesc(sorted, x, key) ==
    IF sorted = <<>> THEN <<x>>
    ELSE IF key[Head(sorted)] >= key[x]
         THEN <<Head(sorted)>> \o InsertDesc(Tail(sorted), x, key)
         ELSE <<x>> \o sorted

\* sorted(items, key=..., reverse=True): stable, descending.
RECURSIVE SortedDesc(_, _)
SortedDesc(items, key) ==
    IF items = <<>> THEN <<>>
    ELSE InsertDesc(SortedDesc(SubSeq(items, 1, Len(items) - 1), key),
                    items[Len(items)], key)

\* An ordering that sorts in ascending count order.
get_camera_order_Ascending(data) ==
    LET camera_counts == [c \in Range(Keys(data)) |-> 0 - Count(data, c)]
    IN  SortedDesc(Keys(data), camera_counts)

get_camera_order(data) ==
    LET camera_counts == [c \in Range(Keys(data)) |-> Count(data, c)]
    IN  SortedDesc(Keys(data), camera_counts)

Color(cmap, entry) == [cmap |-> cmap, entry |-> entry]

\* cmap(i) for an int i: entry i of the palette of N colours.
CmapInt(cmap, N, i) == Color(cmap, IF i >= N THEN N - 1 ELSE i)

\* cmap(num/den) for a float in [0, 1]: entry int(N * num/den).
CmapFloat(cmap, N, num, den) ==
    LET k == (N * num) \div den
    IN  Color(cmap, IF k >= N THEN N - 1 ELSE k)

get_camera_colors(cams) ==
    LET n == Len(cams)
    IN  IF n <= 10
        THEN [i \in 1..n |-> CmapInt("tab10", 10, i - 1)]
        ELSE [i \in 1..n |-> CmapFloat("tab20", 20, i - 1, n)]

\* Lines 162-166 (173-177, 201-204): the (label, color) series of one chart;
\* the colours are colors[:len(labels)].
Series(data, cams, cols, field) ==
    LET labels == SelectSeq(cams, LAMBDA c : Entry(data, c)[field] # <<>>)
    IN  [i \in 1..Len(labels) |-> [label |-> labels[i], color |-> cols[i]]]

NoCharts == [focal_distance |-> <<>>, f_number |-> <<>>, shutter_speed |-> <<>>]

----------------------------------------------------------------------------
(* process_images *)

Init ==
    /\ HEIF_SUPPORTED \in BOOLEAN
    /\ camera_type \in CameraTypes
    /\ files = <<>>
    /\ camera_data = <<>>
    /\ camera_set = {}
    /\ cameras = <<>>
    /\ colors = <<>>
    /\ charts = NoCharts
    /\ filename = <<>>
    /\ supported = FALSE
    /\ pc = "walk"

\* Lines 92-150: the walk yields one more file and the loop body handles it.
\* An exception that no except clause catches leaves process_images.
WalkFile(file) ==
    /\ pc = "walk"
    /\ Len(files) < MaxFiles
    /\ files' = Append(files, file)
    /\ LET r == LoopBody(camera_data, file, camera_type, HEIF_SUPPORTED)
       IN  /\ camera_data' = r.data
           /\ pc' = IF r.exc = "none" THEN "walk" ELSE "aborted"
    /\ UNCHANGED <<HEIF_SUPPORTED, camera_type, camera_set, cameras, colors,
                   charts, filename, supported>>

\* Lines 153-230: the walk is over; the charts are drawn.
Render ==
    /\ pc = "walk"
    /\ pc' = "done"
    /\ IF camera_data # <<>>
       THEN /\ cameras' = get_camera_order(camera_data)
            /\ colors' = get_camera_colors(cameras')
            /\ charts' =
                 [focal_distance |-> Series(camera_data, cameras', colors', "focus"),
                  f_number |-> Series(camera_data, cameras', colors', "f"),
                  shutter_speed |-> Series(camera_data, cameras', colors', "t")]
       ELSE UNCHANGED <<cameras, colors, charts>>
    /\ UNCHANGED <<HEIF_SUPPORTED, camera_type, files, camera_data, camera_set,
                   filename, supported>>

Next ==
    \/ \E file \in Files : WalkFile(file)
    \/ Render

Spec == Init /\ [][Next]_vars

----------------------------------------------------------------------------
(* list_cameras *)

\* Lines 43-54 with the make-only branch left out.
ListedNames_NoMakeOnly(exif_data) ==
    LET make == Get(exif_data, TAG_MAKE)
        model == Get(exif_data, TAG_MODEL)
    IN  IF DOMAIN exif_data = {} THEN {}
        ELSE IF Truthy(make) /\ Truthy(model)
             THEN {Strip(make.s \o <<" ">> \o model.s)}
        ELSE IF Truthy(model) THEN {model.s}
        ELSE {}

\* Lines 43-54: the names one tag dictionary adds to the set.
ListedNames(exif_data) ==
    LET make == Get(exif_data, TAG_MAKE)
        model == Get(exif_data, TAG_MODEL)
    IN  IF DOMAIN exif_data = {} THEN {}
        ELSE IF Truthy(make) /\ Truthy(model)
             THEN {Strip(make.s \o <<" ">> \o model.s)}
        ELSE IF Truthy(model) THEN {model.s}
        ELSE IF Truthy(make) THEN {make.s}
        ELSE {}

\* Lines 36-56: one iteration of the walk over `file`.
ListBody(found, file, heif) ==
    IF ~is_supported_image(file.name, heif) THEN found
    ELSE IF ~file.openable THEN found  \* line 55
    ELSE found \cup ListedNames(file.exif)

\* sorted(a set of str)
RECURSIVE Sorted(_)
Sorted(S) ==
    IF S = {} THEN <<>>
    ELSE LET m == CHOOSE x \in S : \A y \in S \ {x} : StrLess(x, y)
         IN  <<m>> \o Sorted(S \ {m})

InitList ==
    /\ HEIF_SUPPORTED \in BOOLEAN
    /\ camera_type = None
    /\ files = <<>>
    /\ camera_data = <<>>
    /\ camera_set = {}
    /\ cameras = <<>>
    /\ colors = <<>>
    /\ charts = NoCharts
    /\ filename = <<>>
    /\ supported = FALSE
    /\ pc = "list"

\* Lines 34-56
ListFile(file) ==
    /\ pc = "list"
    /\ Len(files) < MaxFiles
    /\ files' = Append(files, file)
    /\ camera_set' = ListBody(camera_set, file, HEIF_SUPPORTED)
    /\ UNCHANGED <<HEIF_SUPPORTED, camera_type, camera_data, cameras, colors,
                   charts, filename, supported, pc>>

\* Line 58
ListReturn ==
    /\ pc = "list"
    /\ cameras' = Sorted(camera_set)
    /\ pc' = "done"
    /\ UNCHANGED <<HEIF_SUPPORTED, camera_type, files, camera_data, camera_set,
                   colors, charts, filename, supported>>

NextList ==
    \/ \E file \in Files : ListFile(file)
    \/ ListReturn

SpecList == InitList /\ [][NextList]_vars

----------------------------------------------------------------------------
(* is_supported_image on its own *)

UpperChar(c) ==
    IF c \in Range(LowerLetters)
    THEN UpperLetters[CHOOSE i \in DOMAIN LowerLetters : LowerLetters[i] = c]
    ELSE c

\* The spellings of s in every mix of upper and lower case.
RECURSIVE CaseVariants(_)
CaseVariants(s) ==
    IF s = <<>> THEN {<<>>}
    ELSE {<<c>> \o rest : c \in {Head(s), UpperChar(Head(s))},
                          rest \in CaseVariants(Tail(s))}

SeqsUpTo(S, n) == UNION {[1..k -> S] : k \in 0..n}

\* Endings that are close to a supported one without being one.
NearMisses ==
    {<<>>, <<"j", "p", "g">>, <<".", "j", "p">>, <<".", "p", "n", "g">>,
     <<".", "j", "p", "g", "x">>, <<".", "j", "p", "e", "g", ".">>,
     <<".", "h", "e", "i">>, <<".", "H", "E", "I", "X">>,
     <<".", "j", "p", "g", " ">>, <<".", "j", "f", "i">>}

FileNames ==
    {stem \o ending :
        stem \in SeqsUpTo({"a", "."}, MaxStem),
        ending \in UNION {CaseVariants(e) : e \in JpegSuffixes \cup HeifSuffixes}
                   \cup NearMisses}

InitFilter ==
    /\ HEIF_SUPPORTED \in BOOLEAN
    /\ camera_type = None
    /\ files = <<>>
    /\ camera_data = <<>>
    /\ camera_set = {}
    /\ cameras = <<>>
    /\ colors = <<>>
    /\ charts = NoCharts
    /\ filename \in FileNames
    /\ supported = FALSE
    /\ pc = "filter"

\* Lines 16-28
CheckName ==
    /\ pc = "filter"
    /\ supported' = is_supported_image(filename, HEIF_SUPPORTED)
    /\ pc' = "done"
    /\ UNCHANGED <<HEIF_SUPPORTED, camera_type, files, camera_data, camera_set,
                   cameras, colors, charts, filename>>

NextFilter == CheckName

SpecFilter == InitFilter /\ [][NextFilter]_vars

----------------------------------------------------------------------------
(* get_camera_order on its own *)

OrderNames == {<<"A">>, <<"b">>, <<"A", " ", "b">>}

\* A registry entry with `count` samples in each of its three lists.
EntryOf(cam, count) ==
    LET samples == [j \in 1..count |-> <<1, 2>>]
    IN  [cam |-> cam, f |-> samples, t |-> samples, focus |-> samples]

\* The registries of up to three cameras, in every insertion order, with
\* every sample count up to MaxCount.
Registries ==
    {[i \in DOMAIN names |-> EntryOf(names[i], counts[i])] :
        <<names, counts>> \in
            UNION {{ns \in [1..k -> OrderNames] :
                        \A i, j \in 1..k : ns[i] = ns[j] => i = j}
                   \X [1..k -> 0..MaxCount] : k \in 0..3}}

InitOrder ==
    /\ HEIF_SUPPORTED = FALSE
    /\ camera_type = None
    /\ files = <<>>
    /\ camera_data \in Registries
    /\ camera_set = {}
    /\ cameras = <<>>
    /\ colors = <<>>
    /\ charts = NoCharts
    /\ filename = <<>>
    /\ supported = FALSE
    /\ pc = "order"

\* Line 158
OrderCameras ==
    /\ pc = "order"
    /\ cameras' = get_camera_order(camera_data)
    /\ pc' = "done"
    /\ UNCHANGED <<HEIF_SUPPORTED, camera_type, files, camera_data, camera_set,
                   colors, charts, filename, supported>>

NextOrder == OrderCameras

SpecOrder == InitOrder /\ [][NextOrder]_vars

----------------------------------------------------------------------------
(* get_camera_colors on its own *)

\* n distinct camera names: "a", "aa", "aaa", ...
NameList(n) == [i \in 1..n |-> [j \in 1..i |-> "a"]]

InitColors ==
    /\ HEIF_SUPPORTED = FALSE
    /\ camera_type = None
    /\ files = <<>>
    /\ camera_data = <<>>
    /\ camera_set = {}
    /\ cameras \in {NameList(n) : n \in 0..MaxCameras}
    /\ colors = <<>>
    /\ charts = NoCharts
    /\ filename = <<>>
    /\ supported = FALSE
    /\ pc = "colors"

\* Line 159
ColorCameras ==
    /\ pc = "colors"
    /\ colors' = get_camera_colors(cameras)
    /\ pc' = "done"
    /\ UNCHANGED <<HEIF_SUPPORTED, camera_type, files, camera_data, camera_set,
                   cameras, charts, filename, supported>>

NextColors == ColorCameras

SpecColors == InitColors /\ [][NextColors]_vars

----------------------------------------------------------------------------
(* Vocabulary of the properties *)

\* The same letter in either case.
SameLetter(a, b) == a = b \/ UpperChar(a) = b \/ UpperChar(b) = a

\* name ends in ext, in any letter case.
EndsIgnoringCase(name, ext) ==
    /\ Len(ext) <= Len(name)
    /\ \A i \in 1..Len(ext) : SameLetter(name[Len(name) - Len(ext) + i], ext[i])

\* sub occurs in s, in any letter case.
ContainsIgnoringCase(s, sub) ==
    \E k \in 0..(Len(s) - Len(sub)) :
        \A i \in 1..Len(sub) : SameLetter(s[k + i], sub[i])

Blanks(n) == [i \in 1..n |-> " "]

\* s without its leading and trailing blanks: the part t of s that neither
\* starts nor ends with a blank and has only blanks around it.
Trimmed(s) ==
    CHOOSE t \in {SubSeq(s, a, b) : a \in 1..(Len(s) + 1), b \in 0..Len(s)} :
        /\ t = <<>> \/ (t[1] # " " /\ t[Len(t)] # " ")
        /\ \E l \in 0..(Len(s) - Len(t)) :
              s = Blanks(l) \o t \o Blanks(Len(s) - Len(t) - l)

\* The file carries a non-empty make (model) tag.
HasMake(file) ==
    /\ TAG_MAKE \in DOMAIN file.exif
    /\ file.exif[TAG_MAKE].s # <<>>

HasModel(file) ==
    /\ TAG_MODEL \in DOMAIN file.exif
    /\ file.exif[TAG_MODEL].s # <<>>

\* 'make model' (trimmed) when both are there, otherwise the one that is.
ExpectedName(file) ==
    IF HasMake(file) /\ HasModel(file)
    THEN Trimmed(file.exif[TAG_MAKE].s \o <<" ">> \o file.exif[TAG_MODEL].s)
    ELSE IF HasModel(file) THEN file.exif[TAG_MODEL].s
    ELSE file.exif[TAG_MAKE].s

\* The file passes the format filter and can be opened.
Readable(file) ==
    is_supported_image(file.name, HEIF_SUPPORTED) /\ file.openable

\* The value of a capture-settings tag of the file (None when missing).
FileSetting(file, tag) ==
    IF TAG_EXIF_IFD \in DOMAIN file.exif
    THEN Get(file.exif[TAG_EXIF_IFD], tag)
    ELSE None

SettingTags == {TAG_EXPOSURE_TIME, TAG_FNUMBER, TAG_FOCAL_LENGTH}

ZeroDenominator(v) ==
    /\ v.kind = "tuple"
    /\ Len(v.items) = 2
    /\ v.items[2] = Num(0, 1)

\* A positive plain number or a rational pair of two positive numbers.
SoundSetting(v) ==
    \/ v.kind = "num" /\ v.n > 0 /\ v.d > 0
    \/ /\ v.kind = "tuple"
       /\ Len(v.items) = 2
       /\ \A i \in 1..2 : v.items[i].kind = "num" /\ v.items[i].n > 0
                          /\ v.items[i].d > 0

\* A readable file with a non-empty camera name and three sound settings.
SoundFile(file) ==
    /\ Readable(file)
    /\ HasMake(file) \/ HasModel(file)
    /\ ExpectedName(file) # <<>>
    /\ \A tag \in SettingTags : SoundSetting(FileSetting(file, tag))

\* The file the walk yielded last.
LastFile(fs) == fs[Len(fs)]

PositionIn(seq, x) == CHOOSE i \in DOMAIN seq : seq[i] = x

----------------------------------------------------------------------------
(* Properties *)

\* C1: for every camera in the registry the lists 'f', 't' and 'focus' have
\* the same length (the camera's sample count), whatever files were handled.
C1_SeriesAligned ==
    \A i \in DOMAIN camera_data :
        /\ Len(camera_data[i].f) = Len(camera_data[i].t)
        /\ Len(camera_data[i].focus) = Len(camera_data[i].t)

\* C2: handling a file that lacks one of the three capture settings, or has
\* a zero denominator in one of them, leaves the registry as it was.
C2_AnomalyDropsFile ==
    [][(/\ Len(files') = Len(files) + 1
        /\ \E tag \in SettingTags :
              \/ FileSetting(LastFile(files'), tag) = None
              \/ ZeroDenominator(FileSetting(LastFile(files'), tag)))
       => camera_data' = camera_data]_vars

\* C3: every stored exposure time, aperture and focal length is strictly
\* positive and every camera name in the registry is a non-empty string.
C3_PositiveRecords ==
    \A i \in DOMAIN camera_data :
        /\ camera_data[i].cam # <<>>
        /\ \A field \in {"f", "t", "focus"} :
              \A j \in DOMAIN camera_data[i][field] :
                  camera_data[i][field][j][1] > 0

\* C4: no file makes the walk stop early: process_images is never left by
\* an exception while files remain.
C4_WalkNeverAborts == pc # "aborted"

\* C5: get_camera_order returns each camera name of the registry exactly
\* once, sample counts never increase along the list, and cameras with
\* equal counts keep the order in which the registry holds them.
C5_OrderDescendingPermutation ==
    pc = "done" =>
        /\ Len(cameras) = Len(camera_data)
        /\ Range(cameras) = Range(Keys(camera_data))
        /\ \A i, j \in DOMAIN cameras :
              i < j =>
                /\ cameras[i] # cameras[j]
                /\ Count(camera_data, cameras[i]) >= Count(camera_data, cameras[j])
                /\ Count(camera_data, cameras[i]) = Count(camera_data, cameras[j])
                     => PositionIn(Keys(camera_data), cameras[i])
                          < PositionIn(Keys(camera_data), cameras[j])

\* Cameras with 5, 20 and 1 samples come out as 20, 5, 1.
C5_Witness ==
    /\ pc = "done"
    /\ Len(camera_data) = 3
    /\ Len(camera_data[1].t) = 5
    /\ Len(camera_data[2].t) = 20
    /\ Len(camera_data[3].t) = 1
    /\ cameras = <<camera_data[2].cam, camera_data[1].cam, camera_data[3].cam>>

\* C6: list_cameras returns, in strictly ascending order, exactly the camera
\* names of the readable files that carry a make or a model, whatever their
\* capture settings are.
C6_ListIsSortedNameSet ==
    pc = "done" =>
        /\ \A i, j \in DOMAIN cameras : i < j => StrLess(cameras[i], cameras[j])
        /\ Range(cameras) =
             {ExpectedName(files[i]) :
                 i \in {k \in DOMAIN files :
                           /\ Readable(files[k])
                           /\ HasMake(files[k]) \/ HasModel(files[k])}}

\* Two cameras are listed, one of them from a file without capture settings,
\* and a file that cannot be opened adds nothing.
C6_Witness ==
    /\ pc = "done"
    /\ Len(cameras) = 2
    /\ \E i \in DOMAIN files :
          /\ files[i].openable
          /\ HasMake(files[i])
          /\ TAG_EXIF_IFD \notin DOMAIN files[i].exif

\* C7: every camera name in the registry contains the filter in some letter
\* case and has no more records than files of that name were read; without
\* a filter every sound file read has its record; a file with neither make
\* nor model adds nothing.
C7_FilterSelectsByName ==
    LET named == {i \in DOMAIN files :
                     /\ Readable(files[i])
                     /\ HasMake(files[i]) \/ HasModel(files[i])}
        name == [i \in named |-> ExpectedName(files[i])]
        sound == {i \in named : SoundFile(files[i])}
    IN  /\ \A e \in Range(camera_data) :
              /\ camera_type # None => ContainsIgnoringCase(e.cam, camera_type.s)
              /\ Len(e.f) <= Cardinality({i \in named : name[i] = e.cam})
        /\ camera_type = None =>
              \A i \in sound :
                  /\ HasKey(camera_data, name[i])
                  /\ Len(Entry(camera_data, name[i]).focus)
                       >= Cardinality({j \in sound : name[j] = name[i]})

\* With the filter "a", a file of camera "A b" is recorded and a file of
\* camera "b" is not.
C7_Witness ==
    /\ camera_type = Str(<<"a">>)
    /\ Len(files) = 2
    /\ HasKey(camera_data, <<"A", " ", "b">>)
    /\ \E i \in DOMAIN files :
          SoundFile(files[i]) /\ ExpectedName(files[i]) = <<"b">>
    /\ ~HasKey(camera_data, <<"b">>)

\* C8: is_supported_image answers true exactly for the names that end, in
\* any letter case, in .jpg, .jpeg, .jpe or .jfif, and for those that end
\* in .heic or .heif when the HEIF flag is set.
C8_FilterByExtension ==
    pc = "done" =>
        supported =
            (\/ \E ext \in JpegSuffixes : EndsIgnoringCase(filename, ext)
             \/ /\ HEIF_SUPPORTED
                /\ \E ext \in HeifSuffixes : EndsIgnoringCase(filename, ext))

\* A HEIC name in mixed case is accepted when the flag is set.
C8_Witness ==
    /\ pc = "done"
    /\ supported
    /\ HEIF_SUPPORTED
    /\ filename = <<"a", ".", "H", "e", "I", "c">>

\* C9: in every chart a camera is drawn in the colour of its position in
\* the camera ordering.
C9_SameColorInEveryChart ==
    pc = "done" =>
        \A ch \in {charts.focal_distance, charts.f_number, charts.shutter_speed} :
            \A i \in DOMAIN ch :
                ch[i].color = colors[PositionIn(cameras, ch[i].label)]

\* C10: get_camera_colors returns one colour per camera, entry i of tab10
\* for up to 10 cameras and entry floor(20*i/n) of tab20 for more, and no
\* two cameras get the same colour.
C10_DistinctColors ==
    pc = "done" =>
        /\ Len(colors) = Len(cameras)
        /\ \A i \in DOMAIN colors :
              colors[i] = IF Len(cameras) <= 10
                          THEN Color("tab10", i - 1)
                          ELSE Color("tab20", (20 * (i - 1)) \div Len(cameras))
        /\ \A i, j \in DOMAIN colors : i # j => colors[i] # colors[j]

====
